---------------------------- MODULE Spec2Model ----------------------------
(***************************************************************************)
(* Model of scripts/recommendation_engine.py: the property normalizer      *)
(* (preprocess_properties), the feature encoder (create_feature_matrix),   *)
(* and the similarity ranker (find_similar_properties,                     *)
(* get_recommendations_for_user), driven as main() drives them.            *)
(*                                                                         *)
(* Values.  A JSON / pandas cell is a record [t, n, s]: t is the kind of   *)
(* the value, n its number, s its string.  "absent" is a key a dict does   *)
(* not have, "null" is None / NaN.  A float64 cell is kept exactly, as the *)
(* integer number of halves it holds (kind "half"), so that the median of  *)
(* integer inputs is exact.  Similarities are compared exactly (as         *)
(* rationals), not in floating point.                                      *)
(***************************************************************************)
EXTENDS Integers, Sequences, FiniteSets, TLC

VARIABLES
    mode,                \* main(): input_data['mode']
    properties_data,     \* all_properties: the raw records, a list of dicts
    user_history,        \* user_history: the property_id of each item ("" = none)
    property_id,         \* similar_properties mode: the target identifier
    n,                   \* limit
    pc,                  \* position in the pipeline
    df,                  \* the DataFrame preprocess_properties returned
    feature_matrix,      \* the matrix create_feature_matrix returned
    similar_indices,     \* line 206, of the last call of find_similar_properties
    h,                   \* index of the next history item of the loop at line 250
    all_recommendations, \* line 249
    top_recommendations, \* line 266: the similarity-based part
    result               \* the list the operation returned

request == <<mode, properties_data, user_history, property_id, n>>

vars == <<request, pc, df, feature_matrix, similar_indices, h,
          all_recommendations, top_recommendations, result>>

-----------------------------------------------------------------------------
(* Program constants and bounds *)

MAX_PROPERTIES == 500

DEFAULT_N == 5

\* The value pd.Timestamp.now() puts in created_at: later than every input.
NOW == 99

\* the longest batch of freely chosen records given to the normalizer
MaxBatch == 3

\* the longest batch of the similar_properties requests
MaxRows == 4

\* the largest limit of the similar_properties requests
MaxLimit == 3

\* the largest pool, the longest history and the largest limit of the
\* user_recommendations requests
MaxPool == 7
MaxHistory == 2
MaxCount == 7

\* the largest number of featured records of a pool
MaxFeatured == 2

-----------------------------------------------------------------------------
(* Values *)

Absent == [t |-> "absent", n |-> 0, s |-> ""]
NaN == [t |-> "null", n |-> 0, s |-> ""]
Num(k) == [t |-> "num", n |-> k, s |-> ""]
Half(k) == [t |-> "half", n |-> k, s |-> ""]
Str(x) == [t |-> "str", n |-> 0, s |-> x]
Bool(b) == [t |-> "bool", n |-> IF b THEN 1 ELSE 0, s |-> ""]

IsNull(v) == v.t = "null"

\* f itself; the comparison has the model checker evaluate the function once
\* and keep its values, not evaluate it again each time it is applied
Evaluated(f) == IF f = <<>> THEN <<>> ELSE f

Min(a, b) == IF a <= b THEN a ELSE b

\* seq[:k] of Python for k >= 0
Take(seq, k) == SubSeq(seq, 1, Min(k, Len(seq)))

Range(seq) == {seq[i] : i \in 1..Len(seq)}

RECURSIVE SelectIdx(_, _, _)
\* the indices i of k..m with i \in S, ascending
SelectIdx(S, k, m) ==
    IF k > m THEN <<>>
    ELSE IF k \in S THEN <<k>> \o SelectIdx(S, k + 1, m)
    ELSE SelectIdx(S, k + 1, m)

-----------------------------------------------------------------------------
(* pandas.DataFrame *)

RawFields == {"id", "property_type", "price", "area", "bedrooms", "bathrooms",
              "governate", "city", "features", "created_at", "is_featured"}

AllCols == RawFields \cup {"location", "features_count"}

EmptyDataFrame == [columns |-> {}, rows |-> <<>>]

\* pd.DataFrame(list of dicts): the columns are the keys any record has; a key
\* a record lacks is NaN in its row.
DataFrame(data) ==
    LET cols == {c \in RawFields : \E i \in 1..Len(data) : data[i][c].t # "absent"}
    IN [columns |-> cols,
        rows |-> Evaluated([i \in 1..Len(data) |->
                    Evaluated([c \in AllCols |->
                        IF c \in RawFields
                        THEN IF data[i][c].t = "absent"
                             THEN (IF c \in cols THEN NaN ELSE Absent)
                             ELSE data[i][c]
                        ELSE Absent])])]

\* df[col] = scalar
SetColumn(d, col, v) ==
    [columns |-> d.columns \cup {col},
     rows |-> Evaluated([i \in 1..Len(d.rows) |-> [d.rows[i] EXCEPT ![col] = v]])]

\* df[col] = df[col].fillna(v)
FillNa(d, col, v) ==
    [d EXCEPT !.rows = Evaluated([i \in 1..Len(d.rows) |->
        IF IsNull(d.rows[i][col]) THEN [d.rows[i] EXCEPT ![col] = v] ELSE d.rows[i]])]

-----------------------------------------------------------------------------
(* preprocess_properties *)

\* float() of the numeric strings of the model; any other string is unparsable
StrToNum(x) ==
    CASE x = "1" -> Num(1)
      [] x = "2" -> Num(2)
      [] x = "4" -> Num(4)
      [] OTHER -> NaN

\* one cell of pd.to_numeric(column, errors='coerce')
ToNumeric(v) ==
    CASE v.t = "num" -> v
      [] v.t = "half" -> v
      [] v.t = "bool" -> Num(v.n)
      [] v.t = "str" -> StrToNum(v.s)
      [] OTHER -> NaN

\* the number of halves in a numeric cell
Halves(v) == IF v.t = "half" THEN v.n ELSE 2 * v.n

\* the k-th smallest (k >= 1) of the values vals[i], i \in I
KthSmallest(vals, I, k) ==
    CHOOSE v \in {vals[i] : i \in I} :
        /\ Cardinality({i \in I : vals[i] <= v}) >= k
        /\ Cardinality({i \in I : vals[i] < v}) < k

\* Series.median() of a float column given in halves (NaN skipped): the middle
\* value, or the mean of the two middle values; NaN when no value is present
Median(d, col) ==
    LET I == {i \in 1..Len(d.rows) : ~IsNull(d.rows[i][col])}
        vals == Evaluated([i \in I |-> d.rows[i][col].n])
        cnt == Cardinality(I)
    IN IF cnt = 0 THEN NaN
       ELSE IF cnt % 2 = 1 THEN Half(KthSmallest(vals, I, (cnt + 1) \div 2))
       \* the inputs are integers, an even number of halves each: the mean
       \* of two of them is a whole number of halves
       ELSE Half((KthSmallest(vals, I, cnt \div 2)
                  + KthSmallest(vals, I, cnt \div 2 + 1)) \div 2)

\* the cap not applied
LimitPropertiesOff(data) == data

\* lines 37-39: properties_data[:MAX_PROPERTIES]
LimitProperties(data) ==
    IF Len(data) > MAX_PROPERTIES THEN SubSeq(data, 1, MAX_PROPERTIES) ELSE data

\* lines 55-65: to_numeric, then fillna(median); the column is 0 when absent
CoerceFillMedian(d, col) ==
    IF col \in d.columns
    THEN LET num == [d EXCEPT !.rows = Evaluated([i \in 1..Len(d.rows) |->
                       [d.rows[i] EXCEPT ![col] =
                           LET v == ToNumeric(d.rows[i][col])
                           IN IF IsNull(v) THEN NaN ELSE Half(Halves(v))]])]
             med == Median(num, col)
         \* Series.empty is False here (the frame has rows): the median is
         \* used, and fillna(NaN) leaves the cells as they are
         IN IF IsNull(med) THEN num ELSE FillNa(num, col, med)
    ELSE SetColumn(d, col, Num(0))

\* lines 67-77: to_numeric, fillna(0), astype(int)
CoerceFillZero(d, col) ==
    IF col \in d.columns
    THEN [d EXCEPT !.rows = Evaluated([i \in 1..Len(d.rows) |->
            [d.rows[i] EXCEPT ![col] =
                LET v == ToNumeric(d.rows[i][col])
                IN IF IsNull(v) THEN Num(0) ELSE Num(Halves(v) \div 2)]])]
    ELSE SetColumn(d, col, Num(0))

\* lines 80-94: the string columns
FillUnknown(d, col) ==
    IF col \notin d.columns THEN SetColumn(d, col, Str("Unknown"))
    ELSE FillNa(d, col, Str("Unknown"))

\* line 97 (and 131): governate + '_' + city
WithLocation(d) ==
    [columns |-> d.columns \cup {"location"},
     rows |-> Evaluated([i \in 1..Len(d.rows) |->
        [d.rows[i] EXCEPT !["location"] =
            Str(d.rows[i]["governate"].s \o "_" \o d.rows[i]["city"].s)]])]

\* len(json.loads(x)) for the JSON texts of the model; -1 when json.loads or
\* len raises (malformed text, a JSON number)
JsonLen(x) ==
    CASE x = "[]" -> 0
      [] x = "[\"pool\"]" -> 1
      [] x = "[\"pool\",\"gym\"]" -> 2
      [] x = "{\"a\":1}" -> 1
      [] OTHER -> -1

\* line 102: the lambda; -1 when it raises
FeaturesLen(v) ==
    IF v.t = "str" /\ v.s # "" THEN JsonLen(v.s) ELSE 0

\* lines 100-105
WithFeaturesCount(d) ==
    IF "features" \in d.columns
    THEN [columns |-> d.columns \cup {"features_count"},
          rows |-> Evaluated([i \in 1..Len(d.rows) |->
             [d.rows[i] EXCEPT !["features_count"] =
                 Num(FeaturesLen(d.rows[i]["features"]))]])]
    ELSE SetColumn(d, "features_count", Num(0))

FeaturesRaise(d) ==
    /\ "features" \in d.columns
    /\ \E i \in 1..Len(d.rows) : FeaturesLen(d.rows[i]["features"]) < 0

\* lines 108-113
WithDefaults(d) ==
    LET a == IF "created_at" \notin d.columns
             THEN SetColumn(d, "created_at", Num(NOW)) ELSE d
    IN IF "is_featured" \notin a.columns
       THEN SetColumn(a, "is_featured", Bool(FALSE)) ELSE a

\* lines 118-133: the except branch, on the frame as the try block left it
Degraded(d) ==
    LET a == FillNa(FillNa(FillNa(FillNa(d, "price", Num(0)), "area", Num(0)),
                           "bedrooms", Num(0)), "bathrooms", Num(0))
        b == FillNa(FillNa(FillNa(a, "property_type", Str("Unknown")),
                           "governate", Str("Unknown")), "city", Str("Unknown"))
    IN SetColumn(WithLocation(b), "features_count", Num(0))

\* lines 55-97: the try block up to the location column
Coerced(d) ==
    WithLocation(
      FillUnknown(FillUnknown(FillUnknown(
        CoerceFillZero(CoerceFillZero(
          CoerceFillMedian(CoerceFillMedian(d, "price"), "area"),
          "bedrooms"), "bathrooms"),
        "property_type"), "governate"), "city"))

preprocess_properties(data) ==
    LET limited == LimitProperties(data)
    IN IF limited = <<>> THEN EmptyDataFrame
       ELSE LET c == Coerced(DataFrame(limited))
            IN IF FeaturesRaise(c) THEN Degraded(c)
               ELSE WithDefaults(WithFeaturesCount(c))


-----------------------------------------------------------------------------
(* create_feature_matrix *)

NumericFeatures == <<"price", "area", "bedrooms", "bathrooms", "features_count">>
CategoricalFeatures == <<"property_type", "location">>

RECURSIVE SumOver(_, _)
\* the sum of f[i], i \in I
SumOver(f, I) ==
    IF I = {} THEN 0
    ELSE LET i == CHOOSE j \in I : TRUE IN f[i] + SumOver(f, I \ {i})

RECURSIVE ProductOf(_)
ProductOf(seq) == IF seq = <<>> THEN 1 ELSE Head(seq) * ProductOf(Tail(seq))

EmptyMatrix == [size |-> 0, num |-> <<>>, den |-> <<>>, onehot |-> <<>>]

\* the largest unit every value of a column is a whole multiple of (1 for a
\* column of zeros): scaling a column by a constant does not change what
\* StandardScaler makes of it, and measuring it in this unit keeps the
\* integers small
ColumnUnit(V) ==
    IF V \subseteq {0} THEN 1
    ELSE LET m == CHOOSE v \in V : v > 0 /\ \A w \in V : w > 0 => v <= w
         IN CHOOSE g \in 1..m :
                /\ \A v \in V : v % g = 0
                /\ \A k \in 1..m : (\A v \in V : v % k = 0) => k <= g

\* StandardScaler on one column: with c values present, sum S and sum of
\* squares Q, the scaled cell is (x - S/c) / sqrt(Q/c - (S/c)^2), that is
\* (c*x - S) / sqrt(c*Q - S*S).  The numerator is kept in num and the square
\* of the denominator in den; a column of zero variance has scale 1 and
\* numerator 0.  NaN is skipped by the fit and stays NaN in the transform.
ScaledColumn(d, col) ==
    LET I == {i \in 1..Len(d.rows) : ~IsNull(d.rows[i][col])}
        g == ColumnUnit({Halves(d.rows[i][col]) : i \in I})
        x == Evaluated([i \in I |-> Halves(d.rows[i][col]) \div g])
        c == Cardinality(I)
        S == SumOver(x, I)
        Q == SumOver([i \in I |-> x[i] * x[i]], I)
        D == c * Q - S * S
    IN [den |-> IF D = 0 THEN 1 ELSE D,
        num |-> Evaluated([i \in 1..Len(d.rows) |->
                    IF i \in I THEN [nan |-> FALSE, v |-> c * x[i] - S]
                    ELSE [nan |-> TRUE, v |-> 0]])]

\* OneHotEncoder: one indicator column per value observed in a column
Categories(d, cats) ==
    {<<cats[k], d.rows[i][cats[k]].s>> : k \in 1..Len(cats), i \in 1..Len(d.rows)}

create_feature_matrix(d) ==
    IF d.rows = <<>> THEN EmptyMatrix
    ELSE LET nums == SelectSeq(NumericFeatures, LAMBDA c : c \in d.columns)
             cats == SelectSeq(CategoricalFeatures, LAMBDA c : c \in d.columns)
         IN IF nums = <<>> /\ cats = <<>> THEN EmptyMatrix
            ELSE LET sc == Evaluated([k \in 1..Len(nums) |-> ScaledColumn(d, nums[k])])
                     K == Categories(d, cats)
                 IN [size |-> Len(d.rows) * (Len(nums) + Cardinality(K)),
                     num |-> [i \in 1..Len(d.rows) |->
                                [k \in 1..Len(nums) |-> sc[k].num[i]]],
                     den |-> [k \in 1..Len(nums) |-> sc[k].den],
                     onehot |-> [i \in 1..Len(d.rows) |->
                                [c \in K |-> IF d.rows[i][c[1]].s = c[2]
                                             THEN 1 ELSE 0]]]

-----------------------------------------------------------------------------
(* find_similar_properties *)

HasNaN(fm) ==
    \E i \in 1..Len(fm.num) : \E k \in 1..Len(fm.num[i]) : fm.num[i][k].nan

\* the dot product of rows i and j, times the product P of the columns'
\* squared denominators
Dot(fm, i, j) ==
    LET P == ProductOf(fm.den)
        cols == 1..Len(fm.den)
        cats == DOMAIN fm.onehot[i]
    IN SumOver([k \in cols |-> fm.num[i][k].v * fm.num[j][k].v * (P \div fm.den[k])],
               cols)
       + P * SumOver([c \in cats |-> fm.onehot[i][c] * fm.onehot[j][c]], cats)

SignedSquare(a) == IF a < 0 THEN 0 - a * a ELSE a * a

\* cosine_similarity(row idx, row j) < cosine_similarity(row idx, row k): with
\* a = Dot(idx, .) and q = Dot(., .), a[j] / sqrt(q[j]) < a[k] / sqrt(q[k]).
\* A row of norm 0 has similarity 0.
SimLess(a, q, j, k) ==
    IF q[j] = 0 \/ q[k] = 0
    THEN (IF q[j] = 0 THEN 0 ELSE a[j]) < (IF q[k] = 0 THEN 0 ELSE a[k])
    ELSE SignedSquare(a[j]) * q[k] < SignedSquare(a[k]) * q[j]

\* the rank of each row's similarity to row idx: the number of rows of strictly
\* smaller similarity
SimRank(fm, idx) ==
    LET a == Evaluated([j \in 1..Len(fm.num) |-> Dot(fm, idx, j)])
        q == Evaluated([j \in 1..Len(fm.num) |-> Dot(fm, j, j)])
    IN Evaluated([j \in 1..Len(fm.num) |->
        Cardinality({k \in 1..Len(fm.num) : SimLess(a, q, k, j)})])

RECURSIVE Argsorts(_, _)
\* ndarray.argsort() of keys given by rank, over the rows S: every
\* arrangement ascending in rank.  The default kind is not a stable sort, so
\* the order of equal keys is the build's choice.
Argsorts(rank, S) ==
    IF S = {} THEN {<<>>}
    ELSE LET m == CHOOSE r \in {rank[j] : j \in S} :
                      \A j \in S : r <= rank[j]
         IN UNION {{<<j>> \o rest : rest \in Argsorts(rank, S \ {j})} :
                     j \in {k \in S : rank[k] = m}}

Reverse(seq) == [i \in 1..Len(seq) |-> seq[Len(seq) + 1 - i]]

\* line 195: the first row whose id equals property_id; 0 when there is none
\* (IndexError) or no id column (KeyError)
TargetIndex(d, pid) ==
    LET hit == {i \in 1..Len(d.rows) : d.rows[i]["id"] = Str(pid)}
    IN IF "id" \notin d.columns \/ hit = {} THEN 0
       ELSE CHOOSE i \in hit : \A j \in hit : i <= j

\* the arrangements similarities.argsort() may return for the call
ArgsortChoices(pid, d, fm) ==
    IF d.rows = <<>> \/ fm.size = 0 \/ TargetIndex(d, pid) = 0 \/ HasNaN(fm)
    THEN {<<>>}
    ELSE Argsorts(SimRank(fm, TargetIndex(d, pid)), 1..Len(d.rows))

\* the target row not taken out
SimilarIndicesWithSelf(order, idx, cnt) == Take(Reverse(order), cnt)

\* the arrangement not reversed: least similar first
SimilarIndicesAscending(order, idx, cnt) ==
    Take(SelectSeq(order, LAMBDA i : i # idx), cnt)

\* lines 205-206: argsort()[::-1], without idx, cut to cnt
SimilarIndices(order, idx, cnt) ==
    Take(SelectSeq(Reverse(order), LAMBDA i : i # idx), cnt)

Ids(d, idx) == [k \in 1..Len(idx) |-> d.rows[idx[k]]["id"].s]

\* lines 189-206, with the arrangement argsort returned: the rows selected,
\* none when the function returns [] early
SelectedRows(pid, d, fm, cnt, order) ==
    IF d.rows = <<>> \/ fm.size = 0 THEN <<>>
    ELSE IF TargetIndex(d, pid) = 0 THEN <<>>
    \* cosine_similarity rejects a matrix that holds NaN: ValueError, caught
    ELSE IF HasNaN(fm) THEN <<>>
    ELSE SimilarIndices(order, TargetIndex(d, pid), cnt)

\* line 209
find_similar_properties(pid, d, fm, cnt, order) ==
    Ids(d, SelectedRows(pid, d, fm, cnt, order))

-----------------------------------------------------------------------------
(* get_recommendations_for_user *)

RECURSIVE Distinct(_)
\* the keys of Counter(seq), in the order they were first seen
Distinct(seq) ==
    IF seq = <<>> THEN <<>>
    ELSE LET rest == Distinct(SubSeq(seq, 1, Len(seq) - 1))
             x == seq[Len(seq)]
         IN IF x \in Range(rest) THEN rest ELSE Append(rest, x)

Count(seq, x) == Cardinality({i \in 1..Len(seq) : seq[i] = x})

\* a key put ahead of the keys of equal count: equal counts come out in the
\* reverse of the order they came in
InsertAheadOfEqual(sorted, x, seq) ==
    LET before == {i \in 1..Len(sorted) : Count(seq, sorted[i]) > Count(seq, x)}
        p == Cardinality(before)
    IN SubSeq(sorted, 1, p) \o <<x>> \o SubSeq(sorted, p + 1, Len(sorted))

\* sorted(..., reverse=True) inserts a key after the keys whose count is at
\* least its own: equal counts keep the order they came in
InsertByCount(sorted, x, seq) ==
    LET before == {i \in 1..Len(sorted) : Count(seq, sorted[i]) >= Count(seq, x)}
        p == Cardinality(before)
    IN SubSeq(sorted, 1, p) \o <<x>> \o SubSeq(sorted, p + 1, Len(sorted))

RECURSIVE SortedByCount(_, _)
SortedByCount(keys, seq) ==
    IF keys = <<>> THEN <<>>
    ELSE InsertByCount(SortedByCount(SubSeq(keys, 1, Len(keys) - 1), seq),
                       keys[Len(keys)], seq)

\* lines 263-266: [item for item, _ in Counter(seq).most_common(cnt)], which
\* is heapq.nlargest(cnt, items, key=count): sorted(items, key=count,
\* reverse=True)[:cnt]
MostCommon(seq, cnt) == Take(SortedByCount(Distinct(seq), seq), cnt)

\* remaining_properties['is_featured'] == True
IsTrue(v) == v.t \in {"bool", "num"} /\ v.n = 1

\* line 274: the rows whose id is not in top
RemainingRows(d, top) ==
    {i \in 1..Len(d.rows) : d.rows[i]["id"].s \notin Range(top)}

\* line 278
FeaturedRows(d, top) ==
    IF "is_featured" \in d.columns
    THEN {i \in RemainingRows(d, top) : IsTrue(d.rows[i]["is_featured"])}
    ELSE {}

RECURSIVE Descendings(_, _)
\* every arrangement of the rows S descending in created_at
Descendings(d, S) ==
    IF S = {} THEN {<<>>}
    ELSE LET m == CHOOSE v \in {d.rows[i]["created_at"].n : i \in S} :
                      \A i \in S : d.rows[i]["created_at"].n <= v
         IN UNION {{<<j>> \o rest : rest \in Descendings(d, S \ {j})} :
                     j \in {k \in S : d.rows[k]["created_at"].n = m}}

\* sort_values('created_at', ascending=False) of the rows S: descending, NaN
\* last in row order; rows of equal created_at in an order the sort (not a
\* stable one) chooses.  <<0>> stands for the KeyError of a frame that has no
\* created_at column.
SortValues(d, S) ==
    IF "created_at" \notin d.columns THEN {<<0>>}
    ELSE LET nan == {i \in S : IsNull(d.rows[i]["created_at"])}
         IN {o \o SelectIdx(nan, 1, Len(d.rows)) : o \in Descendings(d, S \ nan)}

\* the featured frame taken oldest first
FeaturedStepOldestFirst(d, top, cnt, fo) ==
    Take(Ids(d, Reverse(fo)), cnt - Len(top))

\* lines 277-282: the featured step; fo is the sorted featured frame
FeaturedStep(d, top, cnt, fo) ==
    Take(Ids(d, fo), cnt - Len(top))

\* the newest step without its cut to remaining_needed
NewestStepUncut(d, cnt, withFeatured, ro) ==
    IF cnt - Len(withFeatured) > 0 THEN Ids(d, ro) ELSE <<>>

\* lines 285-287: the newest step, with remaining_needed as line 282 left it;
\* ro is the sorted remaining frame
NewestStep(d, cnt, withFeatured, ro) ==
    IF cnt - Len(withFeatured) > 0
    THEN Take(Ids(d, ro), cnt - Len(withFeatured))
    ELSE <<>>

\* lines 269-290, with the two sorted frames; a KeyError ends in line 295
Backfill(d, top, cnt, fo, ro) ==
    IF Len(top) >= cnt THEN top
    ELSE IF FeaturedRows(d, top) # {} /\ fo = <<0>> THEN <<>>
    ELSE LET f == IF FeaturedRows(d, top) # {}
                  THEN top \o FeaturedStep(d, top, cnt, fo) ELSE top
         IN IF cnt - Len(f) > 0 /\ ro = <<0>> THEN <<>>
            ELSE f \o NewestStep(d, cnt, f, ro)

-----------------------------------------------------------------------------
(* The requests *)

PropertyId(i) == "p" \o ToString(i)

\* a record with every field present and valid
Property(id, type, price, created, featured) ==
    [id |-> id, property_type |-> Str(type), price |-> price, area |-> Num(100),
     bedrooms |-> Num(2), bathrooms |-> Num(1), governate |-> Str("Beirut"),
     city |-> Str("Downtown"), features |-> Absent, created_at |-> created,
     is_featured |-> featured]

\* Records for the normalizer: the price is absent, unparsable or valid; the
\* features text is absent, a list of two or malformed; and the other fields
\* are all valid (full) or absent, null or unparsable.
NormPrices == {Absent, Str("abc"), Num(1), Num(4)}
NormFeatures == {Absent, Str("[\"pool\",\"gym\"]"), Str("{bad")}

NormRecord(i, price, features, full) ==
    IF full
    THEN [Property(Str(PropertyId(i)), "Villa", price, Num(i), Bool(TRUE))
            EXCEPT !.features = features]
    ELSE [id |-> Str(PropertyId(i)), property_type |-> NaN, price |-> price,
          area |-> NaN, bedrooms |-> Str("abc"), bathrooms |-> Absent,
          governate |-> Absent, city |-> NaN, features |-> features,
          created_at |-> Absent, is_featured |-> Absent]

NormBatch(len, c) == [i \in 1..len |-> NormRecord(i, c[i][1], c[i][2], c[i][3])]

\* Batches around the cap: record i has the numeric id i; the price of record
\* missing is absent, the records up to low cost 1 and the others 4, and the
\* records past the cap cost tail.
LargeBatch(len, missing, low, tail) ==
    [i \in 1..len |->
        Property(Num(i), "Villa",
                 IF i = missing THEN Absent
                 ELSE IF i > MAX_PROPERTIES THEN tail
                 ELSE IF i <= low THEN Num(1) ELSE Num(4),
                 Num(1), Bool(FALSE))]

LargeLengths == (MAX_PROPERTIES - 1)..(MAX_PROPERTIES + 2)
LargeMissing == {1, MAX_PROPERTIES, MAX_PROPERTIES + 1}
LargeLows == {MAX_PROPERTIES \div 2 - 1, MAX_PROPERTIES \div 2,
              MAX_PROPERTIES \div 2 + 1}
LargeTails == {Num(1), Num(4), Str("abc")}

\* Batches for similar_properties: the rows differ in type and price, so that
\* similarities differ or tie; the ids are p1, p2, ... or the last row
\* repeats the id of the first; the prices are numbers or, in an unpriced
\* batch, all unparsable.
SimilarKinds == {"Apartment", "Villa"} \X {Num(1), Num(2)}

SimilarBatch(len, c, dup, priced) ==
    [i \in 1..len |->
        Property(Str(IF dup /\ i = len THEN PropertyId(1) ELSE PropertyId(i)),
                 c[i][1], IF priced THEN c[i][2] ELSE Str("abc"),
                 Num(i), Bool(FALSE))]

\* Pools for user_recommendations: row i has the id p<i>, and a type, a price
\* and a created_at that depend on i (the created_at of the rows are distinct
\* and in no order of the rows); the rows of feat are featured.  A pool that
\* is not dated has no created_at, a features text that is malformed in its
\* first record, and no featured record but perhaps the first.
PoolRow(i, feat, dated) ==
    [Property(Str(PropertyId(i)),
              IF i % 2 = 1 THEN "Apartment" ELSE "Villa",
              Num(1 + (((i * (i + 1)) \div 2) % 4)),
              IF dated THEN Num((3 * i) % 11) ELSE Absent,
              Bool(i \in feat))
        EXCEPT !.features = IF ~dated /\ i = 1 THEN Str("{bad") ELSE Absent]

Pool(len, feat, dated) == [i \in 1..len |-> PoolRow(i, feat, dated)]

HistoryIds == {PropertyId(1), PropertyId(2), ""}

Histories == UNION {[1..len -> HistoryIds] : len \in 0..MaxHistory}

Idle ==
    /\ pc = "start"
    /\ df = EmptyDataFrame
    /\ feature_matrix = EmptyMatrix
    /\ similar_indices = <<>>
    /\ h = 1
    /\ all_recommendations = <<>>
    /\ top_recommendations = <<>>
    /\ result = <<>>

\* preprocess_properties called on its own (as test_engine does, line 340)
InitNorm ==
    /\ mode = "preprocess"
    /\ \/ \E len \in 1..MaxBatch :
             \E c \in [1..len -> NormPrices \X NormFeatures \X BOOLEAN] :
                properties_data = NormBatch(len, c)
       \/ \E len \in LargeLengths, missing \in LargeMissing,
             low \in LargeLows, tail \in LargeTails :
                properties_data = LargeBatch(len, missing, low, tail)
    /\ user_history = <<>>
    /\ property_id = ""
    /\ n = 0
    /\ Idle

\* main(), lines 386-395
InitSimilar ==
    /\ mode = "similar_properties"
    /\ \E len \in 0..MaxRows :
          \E c \in [1..len -> SimilarKinds], dup \in BOOLEAN, priced \in BOOLEAN :
             properties_data = SimilarBatch(len, c, dup, priced)
    /\ user_history = <<>>
    /\ property_id \in {PropertyId(1), PropertyId(2), "zz"}
    /\ n \in 0..MaxLimit
    /\ Idle

\* main(), lines 375-384
Init ==
    /\ mode = "user_recommendations"
    /\ \E len \in 0..MaxPool :
          \E feat \in {f \in SUBSET (1..len) : Cardinality(f) <= MaxFeatured},
             dated \in BOOLEAN :
             /\ dated \/ feat \subseteq {1}
             /\ properties_data = Pool(len, feat, dated)
    /\ user_history \in Histories
    /\ property_id = ""
    /\ n \in 0..MaxCount
    /\ Idle

-----------------------------------------------------------------------------
(* The steps *)

\* lines 227-229
ReturnEmpty ==
    /\ pc = "start"
    /\ mode = "user_recommendations"
    /\ user_history = <<>> \/ properties_data = <<>>
    /\ result' = <<>>
    /\ pc' = "done"
    /\ UNCHANGED <<request, df, feature_matrix, similar_indices, h,
                   all_recommendations, top_recommendations>>

\* line 233, line 391, line 340
Preprocess ==
    /\ pc = "start"
    /\ mode = "user_recommendations" =>
          user_history # <<>> /\ properties_data # <<>>
    /\ df' = preprocess_properties(properties_data)
    /\ pc' = "preprocessed"
    /\ UNCHANGED <<request, feature_matrix, similar_indices, h,
                   all_recommendations, top_recommendations, result>>

\* lines 236-246, line 392
Encode ==
    /\ pc = "preprocessed"
    /\ mode # "preprocess"
    /\ feature_matrix' = create_feature_matrix(df)
    /\ IF mode = "user_recommendations"
          /\ (df.rows = <<>> \/ create_feature_matrix(df).size = 0)
       THEN pc' = "done"
       ELSE pc' = "encoded"
    /\ UNCHANGED <<request, df, similar_indices, h, all_recommendations,
                   top_recommendations, result>>

\* line 393
FindSimilar ==
    /\ pc = "encoded"
    /\ mode = "similar_properties"
    /\ \E order \in ArgsortChoices(property_id, df, feature_matrix) :
          /\ similar_indices' =
                SelectedRows(property_id, df, feature_matrix, n, order)
          /\ result' =
                find_similar_properties(property_id, df, feature_matrix, n, order)
    /\ pc' = "done"
    /\ UNCHANGED <<request, df, feature_matrix, h, all_recommendations,
                   top_recommendations>>

\* lines 250-254: one history item
SimilarToHistory ==
    /\ pc = "encoded"
    /\ mode = "user_recommendations"
    /\ h <= Len(user_history)
    /\ IF user_history[h] # ""
       THEN \E order \in ArgsortChoices(user_history[h], df, feature_matrix) :
               /\ similar_indices' =
                     SelectedRows(user_history[h], df, feature_matrix,
                                  DEFAULT_N, order)
               /\ all_recommendations' = all_recommendations \o
                     find_similar_properties(user_history[h], df,
                                             feature_matrix, DEFAULT_N, order)
       ELSE UNCHANGED <<similar_indices, all_recommendations>>
    /\ h' = h + 1
    /\ UNCHANGED <<request, pc, df, feature_matrix, top_recommendations, result>>

\* lines 257-266
Rank ==
    /\ pc = "encoded"
    /\ mode = "user_recommendations"
    /\ h > Len(user_history)
    /\ IF all_recommendations = <<>>
       THEN pc' = "done" /\ UNCHANGED top_recommendations
       ELSE /\ pc' = "ranked"
            /\ top_recommendations' = MostCommon(all_recommendations, n)
    /\ UNCHANGED <<request, df, feature_matrix, similar_indices, h,
                   all_recommendations, result>>

\* lines 269-290
Fill ==
    /\ pc = "ranked"
    /\ \E fo \in SortValues(df, FeaturedRows(df, top_recommendations)),
          ro \in SortValues(df, RemainingRows(df, top_recommendations)) :
          result' = Backfill(df, top_recommendations, n, fo, ro)
    /\ pc' = "done"
    /\ UNCHANGED <<request, df, feature_matrix, similar_indices, h,
                   all_recommendations, top_recommendations>>

NextNorm == Preprocess

NextSimilar == Preprocess \/ Encode \/ FindSimilar

Next == ReturnEmpty \/ Preprocess \/ Encode \/ SimilarToHistory \/ Rank \/ Fill

SpecNorm == InitNorm /\ [][NextNorm]_vars

SpecSimilar == InitSimilar /\ [][NextSimilar]_vars

Spec == Init /\ [][Next]_vars

-----------------------------------------------------------------------------
(* The normalizer: C5, C6, C7, under SpecNorm *)

Normalized == mode = "preprocess" /\ pc = "preprocessed"

NormalizedFields ==
    {"property_type", "price", "area", "bedrooms", "bathrooms", "governate",
     "city", "created_at", "is_featured", "location", "features_count"}

\* C5: the table the normalizer produces has, in every record, a value that
\* is not missing for each of the nine base fields and the two derived fields.
C5_NoMissingValues ==
    Normalized =>
        \A i \in 1..Len(df.rows) : \A c \in NormalizedFields :
            c \in df.columns /\ df.rows[i][c].t \notin {"null", "absent"}

\* the number of elements of the list a features value parses to, 0 if it is
\* absent, malformed or empty
ParsedFeatures(v) ==
    IF v.t = "str" /\ JsonLen(v.s) > 0 THEN JsonLen(v.s) ELSE 0

\* C6: every record's features_count is the number of elements of its own
\* parsed features list (0 if absent, malformed or empty), whatever the
\* features of the other records of the batch are.
C6_FeaturesCountPerRecord ==
    Normalized =>
        \A i \in 1..Len(df.rows) :
            /\ "features_count" \in df.columns
            /\ df.rows[i]["features_count"] =
                  Num(ParsedFeatures(properties_data[i]["features"]))

\* the raw price of record i is a number or parses to one
ValidPrice(i) == ~IsNull(ToNumeric(properties_data[i]["price"]))

RawPrice(i) == ToNumeric(properties_data[i]["price"]).n

\* m2 halves is the median of the raw prices of the records I: either a price
\* with fewer than half of the prices on each side of it, or the mean of the
\* two prices that have half of the prices on each side
IsMedianOfPrices(m2, I) ==
    LET below == {i \in I : 2 * RawPrice(i) < m2}
        above == {i \in I : 2 * RawPrice(i) > m2}
        cnt == Cardinality(I)
    IN IF \E i \in I : 2 * RawPrice(i) = m2
       THEN 2 * Cardinality(below) < cnt /\ 2 * Cardinality(above) < cnt
       ELSE /\ 2 * Cardinality(below) = cnt
            /\ 2 * Cardinality(above) = cnt
            /\ \E i \in below, j \in above :
                  /\ \A k \in below : RawPrice(k) <= RawPrice(i)
                  /\ \A k \in above : RawPrice(j) <= RawPrice(k)
                  /\ m2 = RawPrice(i) + RawPrice(j)

RetainedValid == {i \in 1..MAX_PROPERTIES : ValidPrice(i)}

\* C7: of a batch longer than the cap the table holds the first cap records,
\* in order, and a retained record without a valid price has the median of
\* the valid prices of the retained records.
C7_CapThenMedian ==
    (Normalized /\ Len(properties_data) > MAX_PROPERTIES) =>
        /\ Len(df.rows) = MAX_PROPERTIES
        /\ \A i \in 1..MAX_PROPERTIES :
              /\ df.rows[i]["id"] = properties_data[i]["id"]
              /\ (~ValidPrice(i) /\ RetainedValid # {}) =>
                    /\ df.rows[i]["price"].t = "half"
                    /\ IsMedianOfPrices(df.rows[i]["price"].n, RetainedValid)

\* a batch of cap + 2 records whose first record has no price: it gets the
\* median 1 of the retained prices, where the records past the cap cost 4 and
\* the median of all the prices is 4
C7_Witness ==
    /\ Normalized
    /\ Len(properties_data) = MAX_PROPERTIES + 2
    /\ properties_data[1]["price"] = Absent
    /\ properties_data[MAX_PROPERTIES + 1]["price"] = Num(4)
    /\ properties_data[MAX_PROPERTIES \div 2 + 1]["price"] = Num(1)
    /\ df.rows[1]["price"] = Half(2)

-----------------------------------------------------------------------------
(* find_similar_properties: C4, C8, under SpecSimilar *)

Answered == mode = "similar_properties" /\ pc = "done"

TargetRows == {i \in 1..Len(properties_data) :
                 properties_data[i]["id"] = Str(property_id)}

\* C4 as claimed: the list find_similar_properties returns never holds the
\* target identifier.
C4_NeverReturnsTarget ==
    Answered => property_id \notin Range(result)

\* C4 amended: when at most one record of the batch has the target
\* identifier, the list returned does not hold it.
C4_UniqueTargetNotReturned ==
    (Answered /\ Cardinality(TargetRows) <= 1) => property_id \notin Range(result)

C4_Witness ==
    /\ Answered
    /\ Cardinality(TargetRows) = 1
    /\ Len(result) >= 2

Target == TargetIndex(df, property_id)

Others == (1..Len(df.rows)) \ {Target}

\* similar_indices and result are the first n of an arrangement of the rows
\* other than the target in which row j comes before row k whenever
\* Before(j, k)
FirstOfRanking(Before(_, _)) ==
    /\ Len(similar_indices) = Min(n, Cardinality(Others))
    /\ result = Ids(df, similar_indices)
    /\ \A p \in 1..Len(similar_indices) : similar_indices[p] \in Others
    /\ \A p, q \in 1..Len(similar_indices) :
          p < q => /\ similar_indices[p] # similar_indices[q]
                   /\ ~Before(similar_indices[q], similar_indices[p])
    /\ \A k \in Others \ Range(similar_indices) :
          \A p \in 1..Len(similar_indices) : ~Before(k, similar_indices[p])

\* C8 as claimed: with the target present, the result is the first n of the
\* other rows by similarity to the target, descending, rows of equal
\* similarity in row order (the row of smaller index first).  Stated for the
\* matrices that hold no NaN, where a similarity is defined.
C8_TiesInRowOrder ==
    (Answered /\ Target # 0 /\ ~HasNaN(feature_matrix)) =>
        LET rk == SimRank(feature_matrix, Target)
            Before(j, k) == rk[j] > rk[k] \/ (rk[j] = rk[k] /\ j < k)
        IN FirstOfRanking(Before)

\* C8 amended: with the target present, the result is the first n of the
\* other rows by similarity to the target, descending (rows of equal
\* similarity in any order); it is empty when the matrix holds a NaN.
C8_SimilarityDescending ==
    (Answered /\ Target # 0) =>
        IF HasNaN(feature_matrix) THEN result = <<>>
        ELSE LET rk == SimRank(feature_matrix, Target)
                 Before(j, k) == rk[j] > rk[k]
             IN FirstOfRanking(Before)

\* a result that holds two rows of equal similarity and leaves out a row of
\* smaller similarity
C8_Witness ==
    /\ Answered
    /\ Target # 0
    /\ ~HasNaN(feature_matrix)
    /\ LET rk == SimRank(feature_matrix, Target)
       IN /\ \E p, q \in 1..Len(similar_indices) :
                p # q /\ rk[similar_indices[p]] = rk[similar_indices[q]]
          /\ \E k \in Others \ Range(similar_indices) :
                rk[k] < rk[similar_indices[Len(similar_indices)]]

-----------------------------------------------------------------------------
(* get_recommendations_for_user: C1, C2, C3, C9, C10, under Spec *)

Returned == mode = "user_recommendations" /\ pc = "done"

PoolIds == {properties_data[i]["id"].s : i \in 1..Len(properties_data)}

UniqueIds == Cardinality(PoolIds) = Len(properties_data)

\* C1: with unique identifiers in the pool, the list returned holds no
\* identifier twice.
C1_NoDuplicates ==
    (Returned /\ UniqueIds) =>
        \A p, q \in 1..Len(result) : p < q => result[p] # result[q]

\* C2: the list returned is no longer than count, and is empty when count is
\* 0, the history is empty or the pool is empty.
C2_AtMostCount ==
    Returned =>
        /\ Len(result) <= n
        /\ (n = 0 \/ user_history = <<>> \/ properties_data = <<>>) =>
              result = <<>>

\* the backfill steps brought the list to exactly count
C2_Witness ==
    /\ Returned
    /\ top_recommendations # <<>>
    /\ Len(top_recommendations) < n
    /\ Len(result) = n

\* C3: for a history and a pool that are not empty, the pool smaller than
\* count, the list returned is the pool: every identifier once.  (Stated for
\* the requests whose history yields candidates and whose pool has a
\* created_at; the others return the empty list.)
C3_BackfillExhaustive ==
    (Returned /\ user_history # <<>> /\ properties_data # <<>>
       /\ Len(properties_data) < n
       /\ all_recommendations # <<>> /\ "created_at" \in df.columns) =>
        /\ Range(result) = PoolIds
        /\ Len(result) = Cardinality(PoolIds)

Ranked == mode = "user_recommendations" /\ pc \in {"ranked", "done"}
             /\ all_recommendations # <<>>

FirstSeen(x) ==
    CHOOSE i \in 1..Len(all_recommendations) :
        /\ all_recommendations[i] = x
        /\ \A j \in 1..(i - 1) : all_recommendations[j] # x

\* x ranks ahead of y: more frequent, or as frequent and seen first
Ahead(x, y) ==
    \/ Count(all_recommendations, x) > Count(all_recommendations, y)
    \/ /\ Count(all_recommendations, x) = Count(all_recommendations, y)
       /\ FirstSeen(x) < FirstSeen(y)

\* C9: the similarity-based part is the top count distinct identifiers of
\* the accumulation, by frequency descending, equal frequencies by first
\* appearance; a list returned that is not empty starts with it.
C9_MostFrequentFirstSeen ==
    Ranked =>
        /\ Len(top_recommendations) = Min(n, Cardinality(Range(all_recommendations)))
        /\ Range(top_recommendations) \subseteq Range(all_recommendations)
        /\ \A p, q \in 1..Len(top_recommendations) :
              p < q => Ahead(top_recommendations[p], top_recommendations[q])
        /\ \A x \in Range(all_recommendations) \ Range(top_recommendations) :
              \A p \in 1..Len(top_recommendations) : Ahead(top_recommendations[p], x)
        /\ (pc = "done" /\ result # <<>>) =>
              SubSeq(result, 1, Len(top_recommendations)) = top_recommendations

\* the ranking cut a longer list, and holds an identifier seen twice and two
\* identifiers seen once, the later row of the pool first
C9_Witness ==
    /\ Ranked
    /\ pc = "done"
    /\ Len(top_recommendations) < Cardinality(Range(all_recommendations))
    /\ top_recommendations # <<>>
    /\ Count(all_recommendations, top_recommendations[1]) = 2
    /\ \E p, q \in 1..Len(top_recommendations) :
          /\ p < q
          /\ Count(all_recommendations, top_recommendations[p]) =
                Count(all_recommendations, top_recommendations[q])
          /\ TargetIndex(df, top_recommendations[p]) >
                TargetIndex(df, top_recommendations[q])

\* every record has a created_at, no two the same
DistinctCreated ==
    \A i, j \in 1..Len(properties_data) :
        /\ properties_data[i]["created_at"].t = "num"
        /\ i # j => properties_data[i]["created_at"] # properties_data[j]["created_at"]

\* the featured records of the pool that the ranking did not select
UnselectedFeatured ==
    {i \in 1..Len(properties_data) :
        /\ properties_data[i]["id"].s \notin Range(top_recommendations)
        /\ properties_data[i]["is_featured"] = Bool(TRUE)}

\* the number of unselected featured records at least as new as record j
NewerFeatured(j) ==
    Cardinality({i \in UnselectedFeatured :
        properties_data[i]["created_at"].n >= properties_data[j]["created_at"].n})

\* C10: when the ranking yields k identifiers, 0 < k < count, the next
\* min(count - k, number of unselected featured) identifiers are the
\* unselected featured records, newest first.
C10_FeaturedNewestFirst ==
    (Returned /\ UniqueIds /\ DistinctCreated
       /\ 0 < Len(top_recommendations) /\ Len(top_recommendations) < n) =>
        LET k == Len(top_recommendations)
            m == Min(n - k, Cardinality(UnselectedFeatured))
        IN /\ Len(result) >= k + m
           /\ \A j \in UnselectedFeatured :
                 NewerFeatured(j) <= m =>
                    result[k + NewerFeatured(j)] = properties_data[j]["id"].s

\* two featured records were appended, the later row of the pool first
C10_Witness ==
    /\ Returned /\ UniqueIds /\ DistinctCreated
    /\ 0 < Len(top_recommendations)
    /\ Len(top_recommendations) + 2 <= n
    /\ \E i, j \in UnselectedFeatured :
          /\ i < j
          /\ result[Len(top_recommendations) + 1] = properties_data[j]["id"].s
          /\ result[Len(top_recommendations) + 2] = properties_data[i]["id"].s

=============================================================================
